---- MODULE Spec2Model ----
(***************************************************************************)
(* Model of the bus schedule tool (src/main.rs): the static schedule store *)
(* built by Data::read, the departure ranking of Data::stop_sched, the     *)
(* real-time feed parsing of parse_real_time_data and the `stop` flow of   *)
(* main.                                                                   *)
(*                                                                         *)
(* Representation.  A NaiveDate is a day number 0..MaxDate and its weekday *)
(* is the day number modulo 7.  A NaiveTime is a whole second of the day,  *)
(* 0..DaySecs-1 (the day is scaled down from 86400 seconds).  An f64 delay *)
(* is [whole, half]: whole + half/2 seconds, so that the cast `as i64`,    *)
(* which discards the fraction, is not the identity.  A DateTime<Local> is *)
(* [date, secs, half]; the local zone has a fixed offset from UTC, so that *)
(* instants are ordered as their local date and time are.  Option<T> is a  *)
(* sequence of length at most one.  A HashMap is a function on its keys.   *)
(***************************************************************************)
EXTENDS Integers, Sequences, FiniteSets, TLC

VARIABLES
    files,      \* the data directory: the raw rows of the five tables
    args,       \* the arguments of the `stop` subcommand
    data,       \* the Data store built by Data::read
    conf,       \* the FilterConfig handed to stop_sched
    real_time,  \* the delay index {stop_id: {trip_id: delay}}
    today,      \* the process's current local date (Local::today())
    bus_info,   \* the result of the last call of stop_sched
    called_on,  \* the local date the process was at during that call
    prev_info,  \* the result of the call before the last one
    net,        \* the real-time feed: what the fetch of TRIP_UPDATE_URL meets
    warnings,   \* the WARNING lines printed by main
    pc,         \* main's position ("lib" when stop_sched is called on its own)
    exit        \* how the process ended: main's return, or a panic

vars == <<files, args, data, conf, real_time, today, bus_info, called_on, prev_info, net,
          warnings, pc, exit>>

----------------------------------------------------------------------------
(* Bounds of the model. *)

DaySecs == 3
MaxDate == 2
MaxDelay == 2
MaxHowMany == 2

Dates == 0..MaxDate
Times == 0..(DaySecs - 1)

\* The date of the queries where one date is enough.
QueryDate == MaxDate - 1

----------------------------------------------------------------------------
(* Option<T>, HashMap *)

None == <<>>
Some(x) == <<x>>
IsSome(o) == Len(o) > 0
EmptyMap == [k \in {} |-> {}]

----------------------------------------------------------------------------
(* chrono: weekdays, local dates and instants *)

Weekdays == <<"Mon", "Tue", "Wed", "Thu", "Fri", "Sat", "Sun">>

weekday(date) == Weekdays[(date % Len(Weekdays)) + 1]

from_weekday(wd) == {wd}

contains(days, flag) == flag \subseteq days

to_local(naive) == naive

\* Local::today().and_time(naive), local_today being what Local::today() returns
to_local_time(local_today, naive) == [date |-> local_today, secs |-> naive, half |-> 0]

\* DateTime<Local> `a < b`
DateTimeLt(a, b) ==
    \/ a.date < b.date
    \/ a.date = b.date /\ a.secs < b.secs
    \/ a.date = b.date /\ a.secs = b.secs /\ a.half < b.half

\* delay.unwrap_or(0.0) as i64
DelaySeconds(delay) == IF IsSome(delay) THEN delay[1].whole ELSE 0

\* NaiveTime::overflowing_add_signed: the wrapped time and the seconds of overflow
overflowing_add_signed(time, secs) ==
    <<(time + secs) % DaySecs, ((time + secs) \div DaySecs) * DaySecs>>

\* Ord of the tuple (NaiveTime, i64)
KeyLe(k1, k2) == k1[1] < k2[1] \/ (k1[1] = k2[1] /\ k1[2] <= k2[2])

----------------------------------------------------------------------------
(* Data::stop_sched *)

NoInfo == [kind |-> "None", error |-> "", stop_name |-> None, buses |-> <<>>]

Lower(str) == IF str = "A" THEN "a" ELSE IF str = "B" THEN "b" ELSE str

\* The route compared without regard to case.
RouteFiltered_IgnoreCase(c, trip) ==
    IsSome(c.route) /\ Lower(trip.route_short_name) # Lower(c.route[1])

\* `trip.route_short_name != route.to_string()` under `if let Some(route)`
RouteFiltered(c, trip) == IsSome(c.route) /\ trip.route_short_name # c.route[1]

\* The date range taken without its two ends.
OutOfRange_Exclusive(service, tday) ==
    \/ to_local(service.start_date) >= tday
    \/ to_local(service.end_date) <= tday

\* The service's date range does not hold tday.
OutOfRange(service, tday) ==
    \/ to_local(service.start_date) > tday
    \/ to_local(service.end_date) < tday

\* The day of the week overridden by an exception that adds tday.
WrongDay_UnlessAdded(service, tday) ==
    /\ ~contains(service.days, from_weekday(weekday(tday)))
    /\ ~\E i \in DOMAIN service.exceptions :
            /\ to_local(service.exceptions[i].date) = tday
            /\ service.exceptions[i].exception_type = "Added"

\* The service does not run on tday's day of the week.
WrongDay(service, tday) == ~contains(service.days, from_weekday(weekday(tday)))

\* The exceptions that add a date taken for those that remove it.
Excepted_Added(service, tday) ==
    \E i \in DOMAIN service.exceptions :
        LET ex == service.exceptions[i]
        IN  /\ to_local(ex.date) = tday
            /\ service.service_id = ex.service_id
            /\ ex.exception_type = "Added"

\* An exception of the service removes tday.
Excepted(service, tday) ==
    \E i \in DOMAIN service.exceptions :
        LET ex == service.exceptions[i]
        IN  /\ to_local(ex.date) = tday
            /\ service.service_id = ex.service_id
            /\ ex.exception_type = "Removed"

\* The bus already came: `to_local_time(bus.departure_time) < now`
AlreadyCame(local_today, bus, now) ==
    DateTimeLt(to_local_time(local_today, bus.departure_time), now)

\* The delay of the trip looked up at whatever stop the index has it for.
DelayOf_AnyStop(rt, stop_id, trip_id) ==
    LET at == {s \in DOMAIN rt : trip_id \in DOMAIN rt[s]}
    IN  IF stop_id \in at THEN Some(rt[stop_id][trip_id])
        ELSE IF at # {} THEN Some(rt[CHOOSE s \in at : TRUE][trip_id])
        ELSE None

\* real_time.get(conf.stop_id) ... stop.get(&bus.trip_id)
DelayOf(rt, stop_id, trip_id) ==
    IF stop_id \in DOMAIN rt /\ trip_id \in DOMAIN rt[stop_id]
    THEN Some(rt[stop_id][trip_id])
    ELSE None

\* The closure of filter_map: None, or the tuple of an entry that is kept.
FilterBus(d, c, rt, local_today, bus) ==
    LET trip == d.trips[bus.trip_id]
        service == d.calendar[trip.service_id]
        now == c.after
        tday == c.after.date
    IN  IF RouteFiltered(c, trip) THEN None
        ELSE IF OutOfRange(service, tday) THEN None
        ELSE IF WrongDay(service, tday) THEN None
        ELSE IF Excepted(service, tday) THEN None
        ELSE IF AlreadyCame(local_today, bus, now) THEN None
        ELSE Some([route_short_name |-> trip.route_short_name,
                   trip_headsign |-> trip.trip_headsign,
                   time |-> bus.departure_time,
                   delay |-> DelayOf(rt, c.stop_id, bus.trip_id)])

RECURSIVE FilterMap(_, _, _, _, _)
FilterMap(d, c, rt, local_today, buses) ==
    IF buses = <<>> THEN <<>>
    ELSE FilterBus(d, c, rt, local_today, Head(buses))
             \o FilterMap(d, c, rt, local_today, Tail(buses))

\* The sort key with the delay left out.
SortKey_NoDelay(b) == overflowing_add_signed(b.time, 0)

\* The closure of sort_by_key
SortKey(b) == overflowing_add_signed(b.time, DelaySeconds(b.delay))

\* Where a stable sort puts x among the sorted s: after every element whose key is
\* not greater.
RECURSIVE Insert(_, _)
Insert(x, s) ==
    IF s = <<>> THEN <<x>>
    ELSE IF KeyLe(SortKey(Head(s)), SortKey(x)) THEN <<Head(s)>> \o Insert(x, Tail(s))
    ELSE <<x>> \o s

\* Vec::sort_by_key, a stable sort
RECURSIVE sort_by_key(_)
sort_by_key(s) ==
    IF s = <<>> THEN <<>>
    ELSE Insert(s[Len(s)], sort_by_key(SubSeq(s, 1, Len(s) - 1)))

\* Vec::truncate
truncate(s, len) == IF len < Len(s) THEN SubSeq(s, 1, len) ELSE s

\* The expects of the closure: an entry whose trip, or whose trip's service, is missing.
Dangling(d, buses) ==
    \E i \in DOMAIN buses :
        \/ buses[i].trip_id \notin DOMAIN d.trips
        \/ d.trips[buses[i].trip_id].service_id \notin DOMAIN d.calendar

\* The cap applied to the stored order, before the sort.
SortAndTruncate_TruncateFirst(buses, how_many) ==
    sort_by_key(IF IsSome(how_many) THEN truncate(buses, how_many[1]) ELSE buses)

\* buses.sort_by_key(..); if let Some(len) = conf.how_many { buses.truncate(len) }
SortAndTruncate(buses, how_many) ==
    LET sorted == sort_by_key(buses)
    IN  IF IsSome(how_many) THEN truncate(sorted, how_many[1]) ELSE sorted

\* The stop looked for among the keys of stop_times.
GetStop_InStopTimes(d, stop_id) ==
    IF stop_id \in DOMAIN d.stop_times
    THEN Some(IF stop_id \in DOMAIN d.stops THEN d.stops[stop_id] ELSE [stop_name |-> ""])
    ELSE None

\* self.stops.get(conf.stop_id)
GetStop(d, stop_id) == IF stop_id \in DOMAIN d.stops THEN Some(d.stops[stop_id]) ELSE None

\* local_today is the date Local::today() returns while the call runs.
stop_sched(d, c, rt, local_today) ==
    LET stop == GetStop(d, c.stop_id)
    IN  IF IsSome(stop)
        THEN LET buses == IF c.stop_id \in DOMAIN d.stop_times
                          THEN d.stop_times[c.stop_id] ELSE <<>>
             IN  IF Dangling(d, buses)
                 THEN [kind |-> "Panic", error |-> "id not found", stop_name |-> None,
                       buses |-> <<>>]
                 ELSE [kind |-> "Ok", error |-> "",
                       stop_name |-> Some(stop[1].stop_name),
                       buses |-> SortAndTruncate(
                                     FilterMap(d, c, rt, local_today, buses), c.how_many)]
        ELSE [kind |-> "Err", error |-> "No such bus stop", stop_name |-> None,
              buses |-> <<>>]

----------------------------------------------------------------------------
(* Data::read *)
(* A table of `files` is None when its file cannot be opened, and else the list  *)
(* of its rows.  A row that lacks a column of its struct has well_formed FALSE.  *)
(* A raw date or time is the date or time its text parses to, or BadText for a   *)
(* text that does not parse.                                                     *)

BadText == 0 - 1

\* NaiveDate::parse_from_str(.., "%Y%m%d")
ParseDate(raw) == IF raw = BadText THEN None ELSE Some(raw)

\* NaiveTime::parse_from_str(.., "%k:%M:%S").unwrap_or_else(|_| NaiveTime::from_hms(0, 0, 0))
ParseTimeOrMidnight(raw) == IF raw = BadText THEN 0 ELSE raw

Ok(v) == [kind |-> "Ok", error |-> "", value |-> v]
Err(msg) == [kind |-> "Err", error |-> msg, value |-> <<>>]
Panic(msg) == [kind |-> "Panic", error |-> msg, value |-> <<>>]

\* Calendar::from_calendar
from_calendar(raw) ==
    LET Flag(field, wd) == IF field = "1" THEN {wd} ELSE {}
        days == Flag(raw.sunday, "Sun") \cup Flag(raw.monday, "Mon")
                    \cup Flag(raw.tuesday, "Tue") \cup Flag(raw.wednesday, "Wed")
                    \cup Flag(raw.thursday, "Thu") \cup Flag(raw.friday, "Fri")
                    \cup Flag(raw.saturday, "Sat")
        start == ParseDate(raw.start_date)
        end == ParseDate(raw.end_date)
    IN  IF ~IsSome(start) \/ ~IsSome(end) THEN Panic("Error parsing date")
        ELSE Ok([service_id |-> raw.service_id, start_date |-> start[1],
                 end_date |-> end[1], days |-> days, exceptions |-> <<>>])

\* CalendarDate::from_raw
CalendarDate_from_raw(raw) ==
    LET date == ParseDate(raw.date)
    IN  IF ~IsSome(date) THEN Panic("Error parsing date")
        ELSE Ok([date |-> date[1],
                 exception_type |-> IF raw.exception_type = "1" THEN "Added" ELSE "Removed",
                 service_id |-> raw.service_id])

\* StopTime::from_raw
StopTime_from_raw(raw) ==
    [trip_id |-> raw.trip_id, stop_id |-> raw.stop_id,
     departure_time |-> ParseTimeOrMidnight(raw.departure_time)]

\* HashMap::insert
Insert_kv(map, key, value) ==
    [k \in DOMAIN map \cup {key} |-> IF k = key THEN value ELSE map[k]]

\* The calendar rows collected by service_id: a later row replaces an earlier one.
RECURSIVE ReadCalendar(_, _)
ReadCalendar(rows, calendar) ==
    IF rows = <<>> THEN Ok(calendar)
    ELSE IF ~Head(rows).well_formed THEN Panic("Unable to deserialize")
    ELSE LET c == from_calendar(Head(rows))
         IN  IF c.kind # "Ok" THEN c
             ELSE ReadCalendar(Tail(rows), Insert_kv(calendar, c.value.service_id, c.value))

\* An exception of an unknown service passed over.
AttachException_SkipUnknown(calendar, exception) ==
    IF exception.service_id \in DOMAIN calendar
    THEN Ok([calendar EXCEPT ![exception.service_id].exceptions = Append(@, exception)])
    ELSE Ok(calendar)

\* calendar.get_mut(&exception.service_id).expect("No such service.").exceptions.push(exception)
AttachException(calendar, exception) ==
    IF exception.service_id \in DOMAIN calendar
    THEN Ok([calendar EXCEPT ![exception.service_id].exceptions = Append(@, exception)])
    ELSE Panic("No such service.")

\* The loop over the rows of calendar_dates.txt
RECURSIVE ReadCalendarDates(_, _)
ReadCalendarDates(rows, calendar) ==
    IF rows = <<>> THEN Ok(calendar)
    ELSE IF ~Head(rows).well_formed THEN Panic("Unable to deserialize")
    ELSE LET e == CalendarDate_from_raw(Head(rows))
         IN  IF e.kind # "Ok" THEN e
             ELSE LET c == AttachException(calendar, e.value)
                  IN  IF c.kind # "Ok" THEN c
                      ELSE ReadCalendarDates(Tail(rows), c.value)

\* The loop over the rows of stop_times.txt: the entries grouped by stop_id.
RECURSIVE ReadStopTimes(_, _)
ReadStopTimes(rows, stop_times) ==
    IF rows = <<>> THEN Ok(stop_times)
    ELSE IF ~Head(rows).well_formed THEN Panic("Unable to deserialize")
    ELSE LET st == StopTime_from_raw(Head(rows))
             old == IF st.stop_id \in DOMAIN stop_times THEN stop_times[st.stop_id] ELSE <<>>
         IN  ReadStopTimes(Tail(rows), Insert_kv(stop_times, st.stop_id, Append(old, st)))

\* The rows of trips.txt collected by trip_id
RECURSIVE ReadTrips(_, _)
ReadTrips(rows, trips) ==
    IF rows = <<>> THEN Ok(trips)
    ELSE IF ~Head(rows).well_formed THEN Panic("Unable to deserialize")
    ELSE ReadTrips(Tail(rows),
                   Insert_kv(trips, Head(rows).trip_id,
                             [route_short_name |-> Head(rows).route_short_name,
                              service_id |-> Head(rows).service_id,
                              trip_headsign |-> Head(rows).trip_headsign]))

\* The rows of stops.txt collected by stop_id
RECURSIVE ReadStops(_, _)
ReadStops(rows, stops) ==
    IF rows = <<>> THEN Ok(stops)
    ELSE IF ~Head(rows).well_formed THEN Panic("Unable to deserialize")
    ELSE ReadStops(Tail(rows),
                   Insert_kv(stops, Head(rows).stop_id, [stop_name |-> Head(rows).stop_name]))

\* ReaderBuilder::from_path(..)?
Open(table) == IF IsSome(table) THEN Ok(table[1]) ELSE Err("cannot open file")

\* Data::read: Ok with the store, Err when a file cannot be opened, Panic when an
\* expect fails; the tables are read in the order of the code.
read(f) ==
    LET f1 == Open(f.calendar) IN
    IF f1.kind # "Ok" THEN f1 ELSE
    LET cal == ReadCalendar(f1.value, EmptyMap) IN
    IF cal.kind # "Ok" THEN cal ELSE
    LET f2 == Open(f.calendar_dates) IN
    IF f2.kind # "Ok" THEN f2 ELSE
    LET calendar == ReadCalendarDates(f2.value, cal.value) IN
    IF calendar.kind # "Ok" THEN calendar ELSE
    LET f3 == Open(f.stop_times) IN
    IF f3.kind # "Ok" THEN f3 ELSE
    LET stop_times == ReadStopTimes(f3.value, EmptyMap) IN
    IF stop_times.kind # "Ok" THEN stop_times ELSE
    LET f4 == Open(f.trips) IN
    IF f4.kind # "Ok" THEN f4 ELSE
    LET trips == ReadTrips(f4.value, EmptyMap) IN
    IF trips.kind # "Ok" THEN trips ELSE
    LET f5 == Open(f.stops) IN
    IF f5.kind # "Ok" THEN f5 ELSE
    LET stops == ReadStops(f5.value, EmptyMap) IN
    IF stops.kind # "Ok" THEN stops ELSE
    Ok([trips |-> trips.value, stops |-> stops.value, calendar |-> calendar.value,
        stop_times |-> stop_times.value])

----------------------------------------------------------------------------
(* The schedule tables the stores are drawn from *)

TripIds == <<"tA", "tB", "tC">>

Trip(route, service, headsign) ==
    [route_short_name |-> route, service_id |-> service, trip_headsign |-> headsign]

\* Every trip has a headsign of its own, so that a departure of the result names
\* its trip.
TripsTable ==
    [t \in {"tA", "tB", "tC"} |->
        CASE t = "tA" -> Trip("A", "sv1", "to A")
          [] t = "tB" -> Trip("B", "sv2", "to B")
          [] t = "tC" -> Trip("a", "sv1", "to C")]

StopsTable == [s \in {"s1", "s3"} |-> [stop_name |-> IF s = "s1" THEN "Main St" ELSE "Depot"]]

AllWeek == {Weekdays[i] : i \in DOMAIN Weekdays}

Calendar(sid, start, end, days, exceptions) ==
    [service_id |-> sid, start_date |-> start, end_date |-> end, days |-> days,
     exceptions |-> exceptions]

EveryDay(sid) == Calendar(sid, 0, MaxDate, AllWeek, <<>>)

StopTime(trip, stop, time) == [trip_id |-> trip, stop_id |-> stop, departure_time |-> time]

\* The stop-time lists of a stop: each trip of TripIds at most once, at any time.
StopTimeLists(stop) ==
    { LET all == [i \in DOMAIN TripIds |-> StopTime(TripIds[i], stop, f[i])]
          Present(st) == st.departure_time \in Times
      IN  SelectSeq(all, Present) : f \in [DOMAIN TripIds -> Times \cup {-1}] }

\* f64 delays of the feed: positive, whole or with a half second
Delays == {d \in [whole : 0..MaxDelay, half : {0, 1}] : d.whole + d.half > 0}

FilterConfig(stop_id, after, how_many, route) ==
    [stop_id |-> stop_id, after |-> after, how_many |-> how_many, route |-> route]

DateTime(date, secs, half) == [date |-> date, secs |-> secs, half |-> half]

NoConf == FilterConfig("", DateTime(0, 0, 0), None, None)

NoData == [trips |-> EmptyMap, stops |-> EmptyMap, calendar |-> EmptyMap,
           stop_times |-> EmptyMap]

HowManys == {None} \cup {Some(n) : n \in 0..MaxHowMany}

----------------------------------------------------------------------------
(* Calls of stop_sched on a loaded store, and the passing of days *)

\* The store, the query and the delay index are those of Init; neither action
\* changes them.
CallStopSched ==
    /\ pc = "lib"
    /\ prev_info' = bus_info
    /\ bus_info' = stop_sched(data, conf, real_time, today)
    /\ called_on' = Some(today)
    /\ UNCHANGED <<files, args, data, conf, real_time, today, net, warnings, pc, exit>>

\* Midnight passes: the process's local date moves on.
Midnight ==
    /\ pc # "exited"
    /\ today < MaxDate
    /\ today' = today + 1
    /\ UNCHANGED <<files, args, data, conf, real_time, bus_info, called_on, prev_info, net,
                   warnings, pc, exit>>

NextLib == CallStopSched \/ Midnight

NoFiles == <<>>
NoNet == <<>>
NoArgs == <<>>
Running == [kind |-> "Running", error |-> ""]

InitLib ==
    /\ files = NoFiles
    /\ args = NoArgs
    /\ net = NoNet
    /\ warnings = <<>>
    /\ pc = "lib"
    /\ exit = Running
    /\ bus_info = NoInfo
    /\ prev_info = NoInfo
    /\ called_on = None

\* Stores whose services run every day, with any stop-time list at s1, queried at
\* s1 with any result cap and with delays on tA and tB.
Init ==
    /\ InitLib
    /\ today = MaxDate - 1
    /\ \E sts \in StopTimeLists("s1") :
           data = [trips |-> TripsTable, stops |-> StopsTable,
                   calendar |-> [s \in {"sv1", "sv2"} |-> EveryDay(s)],
                   stop_times |-> [s \in {"s1"} |-> sts]]
    /\ \E hm \in HowManys :
           conf = FilterConfig("s1", DateTime(MaxDate - 1, 0, 0), hm, None)
    /\ \E da \in {None} \cup {Some(d) : d \in Delays},
          db \in {None} \cup {Some(d) : d \in {x \in Delays : x.half = 0}} :
           real_time =
               [s \in {"s1"} |->
                   [t \in {x \in {"tA", "tB"} :
                              IsSome(IF x = "tA" THEN da ELSE db)} |->
                       IF t = "tA" THEN da[1] ELSE db[1]]]

Spec == Init /\ [][NextLib]_vars

----------------------------------------------------------------------------
(* Stores and queries for the time filter *)

\* Stores whose services run every day, with any stop-time list at s1, queried at
\* s1 as of any instant, the process being at any date.
InitTime ==
    /\ InitLib
    /\ today \in Dates
    /\ \E sts \in StopTimeLists("s1") :
           data = [trips |-> TripsTable, stops |-> StopsTable,
                   calendar |-> [s \in {"sv1", "sv2"} |-> EveryDay(s)],
                   stop_times |-> [s \in {"s1"} |-> sts]]
    /\ \E d \in Dates, t \in Times, h \in {0, 1} :
           conf = FilterConfig("s1", DateTime(d, t, h), None, None)
    /\ real_time \in {EmptyMap,
                      [s \in {"s1"} |-> [t \in {"tA"} |-> [whole |-> 1, half |-> 0]]]}

SpecTime == InitTime /\ [][NextLib]_vars

----------------------------------------------------------------------------
(* Stores and queries for the calendars, the routes and the stops *)

Exception(date, type, sid) == [date |-> date, exception_type |-> type, service_id |-> sid]

Exceptions(sid) == {Exception(d, ty, sid) : d \in Dates, ty \in {"Added", "Removed"}}

\* The exception lists of a service: at most two exceptions.
ExceptionLists(sid) ==
    {<<>>} \cup {<<e>> : e \in Exceptions(sid)}
           \cup {<<e1, e2>> : e1 \in Exceptions(sid), e2 \in Exceptions(sid)}

DaySets == {AllWeek, AllWeek \ {weekday(QueryDate)}, {weekday(QueryDate)}}

\* s1 and s3 are stops; s2 has stop times and is no stop; s3 has no stop times; s4
\* is a stop visited by a trip that the trips table lacks.
CalStopTimes ==
    [s \in {"s1", "s2", "s4"} |->
        CASE s = "s1" -> <<StopTime("tC", s, DaySecs - 1), StopTime("tB", s, 1),
                           StopTime("tA", s, 1)>>
          [] s = "s2" -> <<StopTime("tA", s, DaySecs - 1)>>
          [] s = "s4" -> <<StopTime("tX", s, 1)>>]

CalStops ==
    [s \in {"s1", "s3", "s4"} |->
        [stop_name |-> CASE s = "s1" -> "Main St" [] s = "s3" -> "Depot" [] s = "s4" -> "Loop"]]

\* Service sv1 with any date range, day set and exception list; sv2 running every
\* day; queried on QueryDate at s1 with any route and with or without a cap, or at
\* one of the other stop ids.
InitCal ==
    /\ InitLib
    /\ today = QueryDate
    /\ \E start \in Dates, end \in Dates, days \in DaySets, exs \in ExceptionLists("sv1") :
           data = [trips |-> TripsTable, stops |-> CalStops,
                   calendar |-> [s \in {"sv1", "sv2"} |->
                                    IF s = "sv1" THEN Calendar(s, start, end, days, exs)
                                    ELSE EveryDay(s)],
                   stop_times |-> CalStopTimes]
    /\ \/ \E r \in {None, Some("A"), Some("a"), Some("B")}, hm \in {None, Some(1)} :
              conf = FilterConfig("s1", DateTime(QueryDate, 1, 0), hm, r)
       \/ \E s \in {"s2", "s3", "s4"} :
              conf = FilterConfig(s, DateTime(QueryDate, 1, 0), None, None)
    /\ real_time = [s \in {"s1"} |-> [t \in {"tA"} |-> [whole |-> 1, half |-> 0]]]

SpecCal == InitCal /\ [][NextLib]_vars

----------------------------------------------------------------------------
(* Stores, queries and delay indexes for the delays of the result *)

\* tA and tB stop at s1 and at s2, tC at s1 only.
DelayStopTimes ==
    [s \in {"s1", "s2"} |->
        IF s = "s1"
        THEN <<StopTime("tA", s, 0), StopTime("tB", s, 1), StopTime("tC", s, DaySecs - 1)>>
        ELSE <<StopTime("tB", s, 1), StopTime("tA", s, DaySecs - 1)>>]

DelayStops == [s \in {"s1", "s2"} |-> [stop_name |-> IF s = "s1" THEN "Main St" ELSE "Side St"]]

\* The delays that the index of a stop may hold: none, or delays of tA, of tB, or of
\* both.
TripDelays ==
    UNION {[ts -> Delays] : ts \in SUBSET {"tA", "tB"}}

\* The delay indexes: each of s1 and s2 is absent, or holds delays of trips.
DelayIndexes ==
    UNION {[ss -> TripDelays] : ss \in SUBSET {"s1", "s2"}}

\* Services that run every day; queried on QueryDate at the start of the day at s1
\* or at s2, with or without a cap, with any delay index.
InitDelay ==
    /\ InitLib
    /\ today = QueryDate
    /\ data = [trips |-> TripsTable, stops |-> DelayStops,
               calendar |-> [s \in {"sv1", "sv2"} |-> EveryDay(s)],
               stop_times |-> DelayStopTimes]
    /\ \E s \in {"s1", "s2"}, hm \in {None, Some(1)} :
           conf = FilterConfig(s, DateTime(QueryDate, 0, 0), hm, None)
    /\ real_time \in DelayIndexes

SpecDelay == InitDelay /\ [][NextLib]_vars

----------------------------------------------------------------------------
(* parse_real_time_data *)
(* A JSON value that the parser reads as a string or as a number is [type, str,  *)
(* num]; an object is a record whose fields are None for the keys it lacks.  A   *)
(* number is an f64 [whole, half].                                               *)

JStr(x) == [type |-> "str", str |-> x, num |-> [whole |-> 0, half |-> 0]]
JNum(d) == [type |-> "num", str |-> "", num |-> d]

as_str(v) == IF v.type = "str" THEN Some(v.str) ELSE None
as_f64(v) == IF v.type = "num" THEN Some(v.num) ELSE None

\* `delay > 0.0`
Positive(d) == 2 * d.whole + d.half > 0

\* by_stop_id_by_trip_id.entry(stop_id).or_default().insert(trip_id, delay)
InsertDelay(map, stop_id, trip_id, delay) ==
    Insert_kv(map, stop_id,
              Insert_kv(IF stop_id \in DOMAIN map THEN map[stop_id] ELSE EmptyMap,
                        trip_id, delay))

NotFound(key, in) == "Key " \o key \o " not found in " \o in

\* The loop over stop_time_update; acc is the map so far and the lines printed.
RECURSIVE ParseStopTimeUpdates(_, _, _)
ParseStopTimeUpdates(stop_times, trip_id, acc) ==
    IF stop_times = <<>> THEN Ok(acc)
    ELSE LET stop_time == Head(stop_times)
             rest == Tail(stop_times)
             Skip(key, in) ==
                 ParseStopTimeUpdates(rest, trip_id,
                     [acc EXCEPT !.printed = Append(@, NotFound(key, in))])
         IN  IF ~IsSome(stop_time.stop_id) THEN Skip("stop_id", "stop_time")
             ELSE IF ~IsSome(as_str(stop_time.stop_id[1])) THEN Panic("expected str")
             ELSE IF ~IsSome(stop_time.departure) THEN Skip("departure", "stop_time")
             ELSE LET departure == stop_time.departure[1]
                      delay == IF IsSome(departure.delay) THEN as_f64(departure.delay[1])
                               ELSE Some([whole |-> 0, half |-> 0])
                  IN  IF ~IsSome(delay) THEN Panic("expected usize")
                      ELSE ParseStopTimeUpdates(rest, trip_id,
                               IF Positive(delay[1])
                               THEN [acc EXCEPT !.map =
                                        InsertDelay(@, as_str(stop_time.stop_id[1])[1],
                                                    trip_id, delay[1])]
                               ELSE acc)

\* The loop over the members of entity
RECURSIVE ParseUpdates(_, _)
ParseUpdates(entity, acc) ==
    IF entity = <<>> THEN Ok(acc)
    ELSE LET update == Head(entity)
             Skip(key, in) ==
                 ParseUpdates(Tail(entity),
                              [acc EXCEPT !.printed = Append(@, NotFound(key, in))])
         IN  IF ~IsSome(update.trip_update) THEN Skip("trip_update", "update")
             ELSE LET trip_update == update.trip_update[1]
                  IN  IF ~IsSome(trip_update.trip) THEN Skip("trip", "trip_update")
                      ELSE IF ~IsSome(trip_update.stop_time_update)
                      THEN Skip("stop_time_update", "trip_update")
                      ELSE IF ~IsSome(trip_update.trip[1].trip_id) THEN Skip("trip_id", "trip")
                      ELSE LET trip_id == as_str(trip_update.trip[1].trip_id[1])
                           IN  IF ~IsSome(trip_id) THEN Panic("expected str")
                               ELSE LET inner == ParseStopTimeUpdates(
                                                     trip_update.stop_time_update[1],
                                                     trip_id[1], acc)
                                    IN  IF inner.kind # "Ok" THEN inner
                                        ELSE ParseUpdates(Tail(entity), inner.value)

\* parse_real_time_data: Ok with the delays by stop and trip (and the lines printed),
\* or a panic; it never returns Err.
parse_real_time_data(real_time_json) ==
    IF ~IsSome(real_time_json.entity)
    THEN Panic("assertion failed: real_time_json.has_key(entity)")
    ELSE ParseUpdates(real_time_json.entity[1], [map |-> EmptyMap, printed |-> <<>>])

----------------------------------------------------------------------------
(* main, the `stop` subcommand *)

DEFAULT_N == 10

\* FilterConfig::new(stop_id), now being Local::now()
FilterConfig_new(stop_id, now) == FilterConfig(stop_id, now, None, None)

Exited(kind, msg) == [kind |-> kind, error |-> msg]

\* let data = Data::read(&data_dir)?;
MainRead ==
    /\ pc = "read"
    /\ LET r == read(files)
       IN  IF r.kind = "Ok"
           THEN data' = r.value /\ pc' = "filter" /\ exit' = exit
           ELSE data' = data /\ pc' = "exited" /\ exit' = Exited(r.kind, r.error)
    /\ UNCHANGED <<files, args, conf, real_time, today, bus_info, called_on, prev_info,
                   net, warnings>>

\* The FilterConfig built from the arguments; the clock reads any time of today.
MainFilter ==
    /\ pc = "filter"
    /\ \E secs \in Times, half \in {0, 1} :
           LET new == FilterConfig_new(args.STOP, DateTime(today, secs, half))
               after == IF IsSome(args.WHEN)
                        THEN DateTime(today, ParseTimeOrMidnight(args.WHEN[1]), 0)
                        ELSE new.after
               how_many == IF IsSome(args.N) THEN args.N ELSE Some(DEFAULT_N)
           IN  conf' = [new EXCEPT !.after = after, !.how_many = how_many,
                                   !.route = args.ROUTE]
    /\ pc' = "real_time"
    /\ UNCHANGED <<files, args, data, real_time, today, bus_info, called_on, prev_info,
                   net, warnings, exit>>

\* reqwest::get(TRIP_UPDATE_URL)?.text(), json::parse and parse_real_time_data
MainRealTime ==
    /\ pc = "real_time"
    /\ IF net.get = "err"
       THEN /\ pc' = "exited" /\ exit' = Exited("Err", "reqwest::get")
            /\ UNCHANGED <<real_time, warnings>>
       ELSE IF net.text = "err"
       THEN /\ warnings' = Append(warnings, "WARNING: Unable to fetch real-time data json.")
            /\ real_time' = EmptyMap
            /\ pc' = "stop_sched" /\ exit' = exit
       ELSE IF ~net.body.is_json
       THEN /\ warnings' = Append(warnings, "WARNING: Unable to parse real-time data json.")
            /\ real_time' = EmptyMap
            /\ pc' = "stop_sched" /\ exit' = exit
       ELSE LET r == parse_real_time_data(net.body)
            IN  IF r.kind = "Ok"
                THEN /\ real_time' = r.value.map
                     /\ warnings' = warnings \o r.value.printed
                     /\ pc' = "stop_sched" /\ exit' = exit
                ELSE IF r.kind = "Err"
                THEN /\ warnings' = Append(warnings, "WARNING: Unable to parse real-time data.")
                     /\ real_time' = EmptyMap
                     /\ pc' = "stop_sched" /\ exit' = exit
                ELSE /\ pc' = "exited" /\ exit' = Exited(r.kind, r.error)
                     /\ UNCHANGED <<real_time, warnings>>
    /\ UNCHANGED <<files, args, data, conf, today, bus_info, called_on, prev_info, net>>

\* let bus_info = data.stop_sched(filter, real_time_info)?; and the printing of it
MainStopSched ==
    /\ pc = "stop_sched"
    /\ bus_info' = stop_sched(data, conf, real_time, today)
    /\ called_on' = Some(today)
    /\ pc' = "exited"
    /\ exit' = IF bus_info'.kind = "Ok" THEN Exited("Ok", "")
               ELSE Exited(bus_info'.kind, bus_info'.error)
    /\ UNCHANGED <<files, args, data, conf, real_time, today, prev_info, net, warnings>>

NextRead == MainRead

NextMain == MainRead \/ MainFilter \/ MainRealTime \/ MainStopSched \/ Midnight

InitMainVars ==
    /\ data = NoData
    /\ conf = NoConf
    /\ real_time = EmptyMap
    /\ warnings = <<>>
    /\ pc = "read"
    /\ exit = Running
    /\ bus_info = NoInfo
    /\ prev_info = NoInfo
    /\ called_on = None

----------------------------------------------------------------------------
(* Data directories *)

CalendarRow(sid, flag, start, end) ==
    [well_formed |-> TRUE, service_id |-> sid, monday |-> "1", tuesday |-> flag,
     wednesday |-> flag, thursday |-> flag, friday |-> flag, saturday |-> "0",
     sunday |-> "", start_date |-> start, end_date |-> end]

CalendarDateRow(date, type, sid) ==
    [well_formed |-> TRUE, date |-> date, exception_type |-> type, service_id |-> sid]

StopTimeRow(trip, stop, time) ==
    [well_formed |-> TRUE, trip_id |-> trip, stop_id |-> stop, departure_time |-> time]

TripRow(trip, route, service, headsign) ==
    [well_formed |-> TRUE, trip_id |-> trip, route_short_name |-> route,
     service_id |-> service, trip_headsign |-> headsign]

StopRow(stop, name) == [well_formed |-> TRUE, stop_id |-> stop, stop_name |-> name]

Malformed(row) == [row EXCEPT !.well_formed = FALSE]

\* The lists of at most two of the rows.
UpToTwo(rows) == {<<>>} \cup {<<r>> : r \in rows} \cup {<<r1, r2>> : r1 \in rows, r2 \in rows}

CalendarRows ==
    {CalendarRow("sv1", "1", 0, MaxDate), CalendarRow("sv1", "0", 1, MaxDate),
     CalendarRow("sv2", "1", 0, MaxDate), CalendarRow("sv2", "1", 0, BadText),
     Malformed(CalendarRow("sv2", "1", 0, MaxDate))}

CalendarDateRows ==
    {CalendarDateRow(QueryDate, ty, sid) : ty \in {"1", "2"}, sid \in {"sv1", "sv2", "sv9"}}
        \cup {CalendarDateRow(BadText, "2", "sv9"),
              Malformed(CalendarDateRow(QueryDate, "2", "sv1"))}

GoodFiles ==
    [calendar |-> Some(<<CalendarRow("sv1", "1", 0, MaxDate), CalendarRow("sv2", "1", 0, MaxDate)>>),
     calendar_dates |-> Some(<<CalendarDateRow(MaxDate, "2", "sv2")>>),
     stop_times |-> Some(<<StopTimeRow("tB", "s1", BadText), StopTimeRow("tA", "s1", 1),
                           StopTimeRow("tA", "s2", 1)>>),
     trips |-> Some(<<TripRow("tA", "A", "sv1", "to A"), TripRow("tB", "B", "sv2", "to B")>>),
     stops |-> Some(<<StopRow("s1", "Main St"), StopRow("s3", "Depot")>>)]

\* Data directories with any two calendar rows and any two exception rows, each
\* table either there or not to be opened.
InitRead ==
    /\ InitMainVars
    /\ args = NoArgs
    /\ net = NoNet
    /\ today = QueryDate
    /\ \E cal \in {None} \cup {Some(l) : l \in UpToTwo(CalendarRows)},
          dates \in {None} \cup {Some(l) : l \in UpToTwo(CalendarDateRows)},
          sts \in {None, GoodFiles.stop_times, Some(<<Malformed(StopTimeRow("tA", "s1", 1))>>)},
          trips \in {None, GoodFiles.trips},
          stops \in {None, GoodFiles.stops} :
           files = [calendar |-> cal, calendar_dates |-> dates, stop_times |-> sts,
                    trips |-> trips, stops |-> stops]

SpecRead == InitRead /\ [][NextRead]_vars

----------------------------------------------------------------------------
(* Real-time feeds *)

StopTimeUpdate(stop_id, departure) == [stop_id |-> stop_id, departure |-> departure]

Departure(delay) == Some([delay |-> delay])

TripUpdate(trip_id, stop_time_update) ==
    [trip_update |-> Some([trip |-> Some([trip_id |-> trip_id]),
                           stop_time_update |-> stop_time_update])]

StopTimeUpdates ==
    {StopTimeUpdate(Some(JStr("s1")), Departure(Some(JNum([whole |-> w, half |-> h]))))
         : w \in {-1, 0, 1}, h \in {0, 1}}
        \cup {StopTimeUpdate(Some(JStr("s2")), Departure(Some(JNum([whole |-> 1, half |-> 0])))),
              StopTimeUpdate(Some(JStr("s1")), Departure(None)),
              StopTimeUpdate(Some(JStr("s1")), Departure(Some(JStr("late")))),
              StopTimeUpdate(Some(JStr("s1")), None),
              StopTimeUpdate(Some(JNum([whole |-> 1, half |-> 0])), Departure(None)),
              StopTimeUpdate(None, Departure(None))}

Updates ==
    {TripUpdate(Some(JStr("tA")), Some(l)) : l \in UpToTwo(StopTimeUpdates)}
        \cup {TripUpdate(Some(JStr("tB")),
                         Some(<<StopTimeUpdate(Some(JStr("s1")),
                                               Departure(Some(JNum([whole |-> 2, half |-> 0]))))>>)),
              TripUpdate(Some(JStr("tA")), None),
              TripUpdate(Some(JNum([whole |-> 1, half |-> 0])), Some(<<>>)),
              TripUpdate(None, Some(<<>>)),
              [trip_update |-> Some([trip |-> None, stop_time_update |-> Some(<<>>)])],
              [trip_update |-> None]}

Json(entity) == [is_json |-> TRUE, entity |-> entity]

NotJson == [is_json |-> FALSE, entity |-> None]

\* What the fetch meets: no answer, an answer whose body cannot be read, a body
\* that is no JSON, a JSON object without "entity", or one with an entity of one
\* update, or of an update of tB and another update.
Nets ==
    {[get |-> "err", text |-> "err", body |-> NotJson],
     [get |-> "ok", text |-> "err", body |-> NotJson],
     [get |-> "ok", text |-> "ok", body |-> NotJson],
     [get |-> "ok", text |-> "ok", body |-> Json(None)],
     [get |-> "ok", text |-> "ok", body |-> Json(Some(<<>>))]}
        \cup {[get |-> "ok", text |-> "ok", body |-> Json(Some(<<u>>))] : u \in Updates}
        \cup {[get |-> "ok", text |-> "ok",
               body |-> Json(Some(<<TripUpdate(Some(JStr("tB")),
                                       Some(<<StopTimeUpdate(Some(JStr("s1")),
                                                  Departure(Some(JNum([whole |-> 2, half |-> 0]))))>>)),
                                    u>>))] : u \in Updates}

Args(stop, when, n, route) == [STOP |-> stop, WHEN |-> when, N |-> n, ROUTE |-> route]

\* A run of `bus stop` on a good data directory, or on one without stops.txt, with
\* any of the feeds.
InitMain ==
    /\ InitMainVars
    /\ files \in {GoodFiles, [GoodFiles EXCEPT !.stops = None]}
    /\ today = QueryDate
    /\ net \in Nets
    /\ \E stop \in {"s1", "s2"}, when \in {None, Some(1)}, n \in {None, Some(1)} :
           args = Args(stop, when, n, None)

SpecMain == InitMain /\ [][NextMain]_vars

----------------------------------------------------------------------------
(* Properties of the ranking: order and cap *)

\* The entries of the queried stop that the filters keep, in stored order, as the
\* last call met them.
Kept ==
    IF conf.stop_id \in DOMAIN data.stop_times /\ IsSome(called_on)
    THEN FilterMap(data, conf, real_time, called_on[1], data.stop_times[conf.stop_id])
    ELSE <<>>

DelayWhole(b) == IF IsSome(b.delay) THEN b.delay[1].whole ELSE 0
DelayHalf(b) == IF IsSome(b.delay) THEN b.delay[1].half ELSE 0

\* Scheduled time plus delay, in half seconds.
Effective(b) == 2 * (b.time + DelayWhole(b)) + DelayHalf(b)

\* Scheduled time plus the whole seconds of the delay, as a time of day.
WrappedEffective(b) == (b.time + DelayWhole(b)) % DaySecs

\* The days by which the delay carries the entry past midnight.
DaysOver(b) == (b.time + DelayWhole(b)) \div DaySecs

Perms(n) == {p \in [1..n -> 1..n] : \A i, j \in 1..n : i # j => p[i] # p[j]}

Min(a, b) == IF a < b THEN a ELSE b

\* C1 as stated: the result is non-decreasing in scheduled time plus delay.
C1_AsStated ==
    bus_info.kind = "Ok" =>
        \A i \in 1..(Len(bus_info.buses) - 1) :
            Effective(bus_info.buses[i]) <= Effective(bus_info.buses[i + 1])

\* C1, amended: the result is non-decreasing in the time of day that the scheduled
\* time plus the whole seconds of the delay (its fraction discarded) falls on, a sum
\* past midnight wrapping to the start of the day; so an entry whose delay carries
\* it, within the day, past a later scheduled entry is placed after that entry.
C1_SortedByWrappedEffective ==
    bus_info.kind = "Ok" =>
        /\ \A i \in 1..(Len(bus_info.buses) - 1) :
               WrappedEffective(bus_info.buses[i]) <= WrappedEffective(bus_info.buses[i + 1])
        /\ \A i, j \in DOMAIN bus_info.buses :
               /\ DaysOver(bus_info.buses[i]) = 0
               /\ DaysOver(bus_info.buses[j]) = 0
               /\ bus_info.buses[i].time + DelayWhole(bus_info.buses[i])
                      < bus_info.buses[j].time + DelayWhole(bus_info.buses[j])
               => i < j

\* A delayed entry, stored first and scheduled first, comes after an undelayed one.
C1_Witness ==
    /\ bus_info.kind = "Ok"
    /\ Len(bus_info.buses) = 2
    /\ Len(Kept) = 2
    /\ Kept[1] = bus_info.buses[2]
    /\ Kept[1].time < Kept[2].time
    /\ IsSome(Kept[1].delay)
    /\ ~IsSome(Kept[2].delay)
    /\ DaysOver(Kept[1]) = 0

\* C3 as stated: with how_many = N the result is the first min(N, length) entries
\* of the kept entries sorted by scheduled time plus delay.
C3_AsStated ==
    (bus_info.kind = "Ok" /\ IsSome(conf.how_many)) =>
        LET n == Len(Kept)
            m == Min(conf.how_many[1], n)
        IN  \E p \in Perms(n) :
                /\ \A i \in 1..(n - 1) : Effective(Kept[p[i]]) <= Effective(Kept[p[i + 1]])
                /\ bus_info.buses = [i \in 1..m |-> Kept[p[i]]]

\* C3, amended: with how_many = N the result is the first min(N, length) entries of
\* the kept entries sorted by the wrapped whole-second effective time of day, entries
\* of equal time of day in the order of the days their delay carries them over, and
\* then in stored order; the cap is applied after the sort.
C3_TruncatedAfterSort ==
    (bus_info.kind = "Ok" /\ IsSome(conf.how_many)) =>
        LET n == Len(Kept)
            m == Min(conf.how_many[1], n)
            Before(x, y) ==
                \/ WrappedEffective(Kept[x]) < WrappedEffective(Kept[y])
                \/ /\ WrappedEffective(Kept[x]) = WrappedEffective(Kept[y])
                   /\ \/ DaysOver(Kept[x]) < DaysOver(Kept[y])
                      \/ DaysOver(Kept[x]) = DaysOver(Kept[y]) /\ x < y
        IN  \E p \in Perms(n) :
                /\ \A i \in 1..(n - 1) : Before(p[i], p[i + 1])
                /\ bus_info.buses = [i \in 1..m |-> Kept[p[i]]]

\* Three entries are kept, the cap is two, and the entry stored first, the last in
\* time, is cut.
C3_Witness ==
    /\ bus_info.kind = "Ok"
    /\ conf.how_many = Some(2)
    /\ Len(Kept) = 3
    /\ Len(bus_info.buses) = 2
    /\ \A i \in 1..2 : bus_info.buses[i] # Kept[1]
    /\ Kept[3].time < Kept[2].time

----------------------------------------------------------------------------
(* Properties of the ranking: what is kept *)

\* The stop-time entries of the queried stop.
Entries == IF conf.stop_id \in DOMAIN data.stop_times THEN data.stop_times[conf.stop_id] ELSE <<>>

TripOf(bus) == data.trips[bus.trip_id]
ServiceOf(bus) == data.calendar[TripOf(bus).service_id]

\* The result the last call would have given with another route and no cap.
Uncapped(route) ==
    stop_sched(data, [conf EXCEPT !.route = route, !.how_many = None], real_time,
               called_on[1]).buses

\* The result of the last call before the cap.
Untruncated == IF conf.how_many = None THEN bus_info.buses ELSE Uncapped(conf.route)

\* A departure of the trip is in buses (a trip's headsign is its own).
Shows(buses, trip_id) ==
    \E i \in DOMAIN buses : buses[i].trip_headsign = data.trips[trip_id].trip_headsign

HasRemoved(service, date) ==
    \E i \in DOMAIN service.exceptions :
        service.exceptions[i].date = date /\ service.exceptions[i].exception_type = "Removed"

\* The service runs on the date: in its range, on a day of its week, not removed.
IsActive(service, date) ==
    /\ service.start_date <= date /\ date <= service.end_date
    /\ weekday(date) \in service.days
    /\ ~HasRemoved(service, date)

\* C2 as stated: an entry that passes the route filter and the service check is
\* dropped if and only if its scheduled time of day is strictly before the time of
\* day of query.as_of, whatever the date of as_of.
C2_AsStated ==
    bus_info.kind = "Ok" =>
        \A i \in DOMAIN Entries :
            LET bus == Entries[i]
            IN  /\ (IsSome(conf.route) => TripOf(bus).route_short_name = conf.route[1])
                /\ IsActive(ServiceOf(bus), conf.after.date)
                => (~Shows(Untruncated, bus.trip_id)
                        <=> \/ bus.departure_time < conf.after.secs
                            \/ bus.departure_time = conf.after.secs /\ 0 < conf.after.half)

\* C4: a stop id that is no key of stops gives the error "No such bus stop", with no
\* stop name and no departures, also when stop times are stored under that id; a
\* stop id that is a key of stops never gives that error.
C4_NoSuchStop ==
    bus_info.kind # "None" =>
        IF conf.stop_id \in DOMAIN data.stops
        THEN bus_info.kind # "Err" /\ bus_info.error # "No such bus stop"
        ELSE bus_info = [kind |-> "Err", error |-> "No such bus stop", stop_name |-> None,
                         buses |-> <<>>]

C4_Witness ==
    /\ bus_info.kind = "Err"
    /\ conf.stop_id \notin DOMAIN data.stops
    /\ conf.stop_id \in DOMAIN data.stop_times
    /\ Len(data.stop_times[conf.stop_id]) > 0

\* C6: when a service has a Removed exception on the date of query.as_of, no entry
\* of a trip of that service is in the result, whatever its days, its range and its
\* other exceptions.
C6_RemovedNeverShown ==
    bus_info.kind = "Ok" =>
        \A i \in DOMAIN Entries :
            HasRemoved(ServiceOf(Entries[i]), conf.after.date)
                => ~Shows(bus_info.buses, Entries[i].trip_id)

\* The service is in range, runs that day of the week and has an Added and a Removed
\* exception on the date; the call shows the other service's trip only.
C6_Witness ==
    /\ bus_info.kind = "Ok"
    /\ conf.stop_id = "s1" /\ conf.route = None /\ conf.how_many = None
    /\ LET sv == data.calendar["sv1"]
       IN  /\ sv.start_date <= conf.after.date /\ conf.after.date <= sv.end_date
           /\ weekday(conf.after.date) \in sv.days
           /\ sv.exceptions = <<Exception(conf.after.date, "Added", "sv1"),
                                Exception(conf.after.date, "Removed", "sv1")>>
    /\ Len(bus_info.buses) = 1
    /\ Shows(bus_info.buses, "tB")

\* The store with the date range of a service widened by a day at each end.
Widened(d, sid) ==
    [d EXCEPT !.calendar[sid].start_date = @ - 1, !.calendar[sid].end_date = @ + 1]

\* C7: when the date of query.as_of is before a service's start_date or after its
\* end_date, no entry of a trip of that service is in the result; and on the first
\* and the last date of the range the range check excludes nothing: the result is
\* the one a wider range gives.
C7_DateRange ==
    bus_info.kind = "Ok" =>
        /\ \A i \in DOMAIN Entries :
               LET sv == ServiceOf(Entries[i])
               IN  (conf.after.date < sv.start_date \/ conf.after.date > sv.end_date)
                       => ~Shows(bus_info.buses, Entries[i].trip_id)
        /\ \A sid \in DOMAIN data.calendar :
               LET sv == data.calendar[sid]
               IN  /\ sv.start_date <= conf.after.date /\ conf.after.date <= sv.end_date
                   /\ conf.after.date \in {sv.start_date, sv.end_date}
                   => stop_sched(Widened(data, sid), conf, real_time, called_on[1]) = bus_info

\* The date is before the range of a service that runs that day of the week and has
\* no exception; the call shows the other service's trip only.
C7_Witness ==
    /\ bus_info.kind = "Ok"
    /\ conf.stop_id = "s1" /\ conf.route = None /\ conf.how_many = None
    /\ LET sv == data.calendar["sv1"]
       IN  /\ conf.after.date < sv.start_date
           /\ conf.after.date <= sv.end_date
           /\ weekday(conf.after.date) \in sv.days
           /\ sv.exceptions = <<>>
    /\ Len(bus_info.buses) = 1
    /\ Shows(bus_info.buses, "tB")

\* C8 as stated: two calls with the same store, delay index and query give the same
\* result.
C8_AsStated == prev_info.kind # "None" => prev_info = bus_info

WithRoute(buses, route) ==
    LET Is(b) == b.route_short_name = route
    IN  SelectSeq(buses, Is)

Routes == {data.trips[t].route_short_name : t \in DOMAIN data.trips}

\* C9: with route = R every entry of the result has the route label R, and the
\* result before the cap holds every entry of label R that the query without a route
\* gives; without a route the result holds, for every label, the entries that the
\* query for that label gives.
C9_RouteFilter ==
    bus_info.kind = "Ok" =>
        IF IsSome(conf.route)
        THEN /\ \A i \in DOMAIN bus_info.buses :
                    bus_info.buses[i].route_short_name = conf.route[1]
             /\ Untruncated = WithRoute(Uncapped(None), conf.route[1])
        ELSE \A r \in Routes : WithRoute(Untruncated, r) = Uncapped(Some(r))

\* Route "A" is asked for; the trips of routes "A", "a" and "B" all pass the other
\* checks, and the result is the one of route "A".
C9_Witness ==
    /\ bus_info.kind = "Ok"
    /\ conf.route = Some("A") /\ conf.how_many = None
    /\ Len(Uncapped(None)) = 3
    /\ Len(bus_info.buses) = 1
    /\ Shows(bus_info.buses, "tA")

----------------------------------------------------------------------------
(* Properties of the stop query flow and of the load *)

Warnings ==
    {"WARNING: Unable to fetch real-time data json.",
     "WARNING: Unable to parse real-time data json.",
     "WARNING: Unable to parse real-time data."}

\* The fetch fails, the body cannot be read, the body is no JSON, or the JSON has no
\* "entity".
FeedFailed ==
    \/ net.get = "err"
    \/ net.text = "err"
    \/ ~net.body.is_json
    \/ ~IsSome(net.body.entity)

\* C5 as stated: in a stop query whose store is loaded, every failure of the feed
\* leads to stop_sched being called with an empty delay index after a warning; none
\* ends the query before that call.
C5_AsStated ==
    (data # NoData /\ FeedFailed /\ pc \in {"stop_sched", "exited"}) =>
        /\ real_time = EmptyMap
        /\ \E i \in DOMAIN warnings : warnings[i] \in Warnings
        /\ pc = "exited" => IsSome(called_on)

GoodCalendarRow(r) == r.well_formed /\ r.start_date # BadText /\ r.end_date # BadText

GoodDateRow(r) == r.well_formed /\ r.date # BadText

\* The service id of the exception row is one of a calendar row.
Known(r) ==
    \E j \in DOMAIN files.calendar[1] : files.calendar[1][j].service_id = r.service_id

\* The load comes to an exception row of an unknown service: both tables open, the
\* calendar rows and the exception rows before it load, and the row itself parses.
ProcessesUnknown ==
    /\ IsSome(files.calendar)
    /\ \A j \in DOMAIN files.calendar[1] : GoodCalendarRow(files.calendar[1][j])
    /\ IsSome(files.calendar_dates)
    /\ \E i \in DOMAIN files.calendar_dates[1] :
           /\ GoodDateRow(files.calendar_dates[1][i])
           /\ ~Known(files.calendar_dates[1][i])
           /\ \A j \in 1..(i - 1) :
                  GoodDateRow(files.calendar_dates[1][j]) /\ Known(files.calendar_dates[1][j])

\* Each calendar of the store holds the exception rows of its service id, in the
\* order of the file, and nothing else.
ExceptionsMatch ==
    \A sid \in DOMAIN data.calendar :
        LET Mine(r) == r.service_id = sid
            rows == SelectSeq(files.calendar_dates[1], Mine)
            exs == data.calendar[sid].exceptions
        IN  /\ Len(exs) = Len(rows)
            /\ \A i \in DOMAIN rows :
                   exs[i] = [date |-> rows[i].date,
                             exception_type |-> IF rows[i].exception_type = "1"
                                                THEN "Added" ELSE "Removed",
                             service_id |-> sid]

\* C10 as stated: the load that comes to an exception row of an unknown service
\* returns an error to its caller and gives no store; every store that the load
\* gives holds, per calendar, the exception rows of its service id.
C10_AsStated ==
    pc # "read" =>
        /\ ProcessesUnknown => (exit.kind = "Err" /\ data = NoData)
        /\ pc = "filter" => ExceptionsMatch

\* C10, amended: the load that comes to an exception row of an unknown service
\* panics with "No such service." (no error is returned to the caller) and gives no
\* store; every store that the load gives holds, per calendar, the exception rows
\* of its service id.
C10_UnknownServicePanics ==
    pc # "read" =>
        /\ ProcessesUnknown =>
               (pc = "exited" /\ exit = Exited("Panic", "No such service.") /\ data = NoData)
        /\ pc = "filter" => ExceptionsMatch

\* The second exception row is of an unknown service, and the load has ended.
C10_Witness ==
    /\ pc = "exited"
    /\ ProcessesUnknown
    /\ Len(files.calendar_dates[1]) = 2
    /\ Known(files.calendar_dates[1][1])
    /\ exit.kind = "Panic"

----------------------------------------------------------------------------
(* Properties of the ranking: the exceptions that add a date *)

\* The store without the Added exceptions of its calendars.
StripAdded(d) ==
    LET NotAdded(ex) == ex.exception_type # "Added"
    IN  [d EXCEPT !.calendar =
            [sid \in DOMAIN d.calendar |->
                [d.calendar[sid] EXCEPT !.exceptions = SelectSeq(@, NotAdded)]]]

\* The store with one more Added exception of the service on the date.
WithAdded(d, sid, date) ==
    [d EXCEPT !.calendar[sid].exceptions = Append(@, Exception(date, "Added", sid))]

\* C11: the Added exceptions do not change the result: the call gives what it gives
\* on the store with every Added exception deleted, and what it gives on the store
\* with one more Added exception of any service on any date; and no entry of a
\* service whose days lack the day of the week of query.as_of is in the result,
\* also when the service has an Added exception on that date.
C11_AddedNeverConsulted ==
    bus_info.kind # "None" =>
        /\ stop_sched(StripAdded(data), conf, real_time, called_on[1]) = bus_info
        /\ \A sid \in DOMAIN data.calendar, date \in Dates :
               stop_sched(WithAdded(data, sid, date), conf, real_time, called_on[1])
                   = bus_info
        /\ bus_info.kind = "Ok" =>
               \A i \in DOMAIN Entries :
                   weekday(conf.after.date) \notin ServiceOf(Entries[i]).days
                       => ~Shows(bus_info.buses, Entries[i].trip_id)

\* The service is in range, does not run on the day of the week of the date, and
\* its one exception adds the date; the call shows the other service's trip only.
C11_Witness ==
    /\ bus_info.kind = "Ok"
    /\ conf.stop_id = "s1" /\ conf.route = None /\ conf.how_many = None
    /\ LET sv == data.calendar["sv1"]
       IN  /\ sv.start_date <= conf.after.date /\ conf.after.date <= sv.end_date
           /\ weekday(conf.after.date) \notin sv.days
           /\ sv.exceptions = <<Exception(conf.after.date, "Added", "sv1")>>
    /\ Len(bus_info.buses) = 1
    /\ Shows(bus_info.buses, "tB")

----------------------------------------------------------------------------
(* Properties of the ranking: the delays of the result *)

\* What the delay index holds for the queried stop and the trip.
Indexed(trip_id) ==
    IF conf.stop_id \in DOMAIN real_time
    THEN IF trip_id \in DOMAIN real_time[conf.stop_id]
         THEN Some(real_time[conf.stop_id][trip_id])
         ELSE None
    ELSE None

\* C12: every entry of the result is of a stop-time entry of the queried stop, has
\* that entry's scheduled departure time, not adjusted by the delay, and has the
\* delay that the index holds for (query.stop_id, the entry's trip id), or no delay
\* when the index holds none for that pair.
C12_DelayKeyedByStopAndTrip ==
    bus_info.kind = "Ok" =>
        \A i \in DOMAIN bus_info.buses :
            LET b == bus_info.buses[i]
            IN  \E j \in DOMAIN Entries :
                    /\ TripOf(Entries[j]).trip_headsign = b.trip_headsign
                    /\ b.time = Entries[j].departure_time
                    /\ b.delay = Indexed(Entries[j].trip_id)

\* At s1 the index holds a delay of tB and none of tA, and at s2 a delay of tA and
\* another delay of tB; the call at s1 shows tA without a delay and tB with its
\* delay at s1.
C12_Witness ==
    /\ bus_info.kind = "Ok"
    /\ conf.stop_id = "s1" /\ conf.how_many = None
    /\ DOMAIN real_time = {"s1", "s2"}
    /\ DOMAIN real_time["s1"] = {"tB"}
    /\ DOMAIN real_time["s2"] = {"tA", "tB"}
    /\ real_time["s2"]["tB"] # real_time["s1"]["tB"]
    /\ \E i, j \in DOMAIN bus_info.buses :
           /\ bus_info.buses[i].trip_headsign = "to A"
           /\ bus_info.buses[i].delay = None
           /\ bus_info.buses[j].trip_headsign = "to B"
           /\ bus_info.buses[j].delay = Some(real_time["s1"]["tB"])
           /\ bus_info.buses[j].time = 1

====
